---- MODULE Spec2Model ----
(***************************************************************************)
(* A model of src/src/sound.rs: the two pulse channels of the APU, their   *)
(* volume envelopes, the frequency sweep of channel 1, the length          *)
(* counters, the frame sequencer and the register interface.               *)
(*                                                                         *)
(* Four specifications are given.  Spec drives a whole Sound object        *)
(* through rb, wb, do_cycle and do_output.  SpecEnv drives one             *)
(* VolumeEnvelope through its own methods wb and step, SpecChan one        *)
(* SquareChannel through wb, run, step_length and step_sweep, so that      *)
(* properties of a single call of step(), step_sweep() or step_length()    *)
(* are properties of one transition.                                       *)
(* SpecSeq drives a Sound object as Spec does, for more sequencer ticks    *)
(* and with fewer registers, and logs the calls each tick makes.           *)
(***************************************************************************)
EXTENDS Integers, Sequences, FiniteSets

VARIABLES
    sound,          \* the Sound object (Spec)
    ret,            \* what the last call returned: the byte of Sound::rb, -1 for the others (Spec)
    clock,          \* the caller's clock: the cycles passed to do_cycle so far (Spec)
    written,        \* history: address -> last byte written by an accepted wb, -1 if none
    env,            \* a VolumeEnvelope object (SpecEnv)
    env_since,      \* history: calls of step() since the last reload of env.delay, -1 if unknown
    chan,           \* a SquareChannel object (SpecChan)
    chan_calls,     \* the calls of the methods of chan so far (SpecChan)
    chan_overflow,  \* history: a sweep calculation of chan overflowed since the last write of 0xFF14
    seq_log         \* history: the calls made in each of the last four sequencer ticks of sound (SpecSeq)

soundVars == <<sound, ret, clock, written>>

envVars == <<env, env_since>>

chanVars == <<chan, chan_calls, chan_overflow>>

seqVars == <<seq_log>>

vars == <<sound, ret, clock, written, env, env_since, chan, chan_calls, chan_overflow,
          seq_log>>

----------------------------------------------------------------------------
(* Bounds of the model and constants of the program *)

\* the caller's clock runs for at most this many half sequencer ticks
MaxHalfTicks == 6

\* wb is called on at most this many distinct addresses
MaxRegs == 3

CLOCKS_PER_SECOND == 4194304

\* CLOCKS_PER_SECOND / 256: the ticks of one frame sequencer step
SEQ_TICKS == CLOCKS_PER_SECOND \div 256

\* the first address of the register block, the index base of registerdata
REG_BASE == 65296

\* the register addresses (0xFF10 ... 0xFF26)
NR10 == 65296
NR11 == 65297
NR12 == 65298
NR13 == 65299
NR14 == 65300
NR21 == 65302
NR22 == 65303
NR23 == 65304
NR24 == 65305
NR42 == 65313
NR44 == 65315
NR50 == 65316
NR51 == 65317
NR52 == 65318
\* an address outside the register block (0xFF30)
WAVE0 == 65328

----------------------------------------------------------------------------
(* Bit operations on bytes, as the code uses them *)

Pow2(k) == 2 ^ k

\* v >> k
Shr(v, k) == v \div Pow2(k)

\* v & (1 << k) == (1 << k)
Bit(v, k) == (v \div Pow2(k)) % 2 = 1

\* v & ((1 << k) - 1)
LowBits(v, k) == v % Pow2(k)

----------------------------------------------------------------------------
(* VolumeEnvelope *)

\* VolumeEnvelope::new
VolumeEnvelope_new ==
    [period |-> 0, goes_up |-> FALSE, delay |-> 0, initial_volume |-> 0, volume |-> 0]

\* VolumeEnvelope::wb
VolumeEnvelope_wb(e, a, v) ==
    IF a \in {NR12, NR22, NR42}
    THEN [e EXCEPT !.period = LowBits(v, 3),
                   !.goes_up = Bit(v, 3),
                   !.initial_volume = Shr(v, 4),
                   !.volume = Shr(v, 4)]
    ELSE IF a \in {NR14, NR24, NR44} /\ Bit(v, 7)
    THEN [e EXCEPT !.delay = e.period,
                   !.volume = e.initial_volume]
    ELSE e

\* VolumeEnvelope::step
VolumeEnvelope_step_early(e) ==
    IF e.delay > 2
    THEN [e EXCEPT !.delay = e.delay - 1]
    ELSE IF e.delay >= 1
    THEN LET e1 == [e EXCEPT !.delay = e.period] IN
         IF e1.goes_up /\ e1.volume < 15
         THEN [e1 EXCEPT !.volume = e1.volume + 1]
         ELSE IF ~e1.goes_up /\ e1.volume > 0
         THEN [e1 EXCEPT !.volume = e1.volume - 1]
         ELSE e1
    ELSE e

VolumeEnvelope_step_noclamp(e) ==
    IF e.delay > 1
    THEN [e EXCEPT !.delay = e.delay - 1]
    ELSE IF e.delay = 1
    THEN LET e1 == [e EXCEPT !.delay = e.period] IN
         IF e1.goes_up
         THEN [e1 EXCEPT !.volume = (e1.volume + 1) % 256]
         ELSE [e1 EXCEPT !.volume = (e1.volume + 255) % 256]
    ELSE e

VolumeEnvelope_step(e) ==
    IF e.delay > 1
    THEN [e EXCEPT !.delay = e.delay - 1]
    ELSE IF e.delay = 1
    THEN LET e1 == [e EXCEPT !.delay = e.period] IN
         IF e1.goes_up /\ e1.volume < 15
         THEN [e1 EXCEPT !.volume = e1.volume + 1]
         ELSE IF ~e1.goes_up /\ e1.volume > 0
         THEN [e1 EXCEPT !.volume = e1.volume - 1]
         ELSE e1
    ELSE e

----------------------------------------------------------------------------
(* SquareChannel *)

\* WAVE_PATTERN, indexed from 1 (duty + 1, phase + 1)
WAVE_PATTERN ==
    << <<-1, -1, -1, -1,  1, -1, -1, -1>>,
       <<-1, -1, -1, -1,  1,  1, -1, -1>>,
       <<-1, -1,  1,  1,  1,  1, -1, -1>>,
       << 1,  1,  1,  1, -1, -1,  1,  1>> >>

\* The band-limited accumulator of a channel, an external object, is kept as
\* the level its deltas add up to and the time of the last delta of the
\* frame that is open (-1: the frame has none).
BlipBuf_new == [level |-> 0, last_t |-> -1]

\* BlipBuf::add_delta
add_delta(b, t, delta) == [b EXCEPT !.level = b.level + delta, !.last_t = t]

\* BlipBuf::end_frame
end_frame(b, t) == [b EXCEPT !.last_t = -1]

\* SquareChannel::new
SquareChannel_new(with_sweep) ==
    [enabled |-> FALSE, duty |-> 1, phase |-> 1, length |-> 0,
     length_enabled |-> FALSE, frequency |-> 0, period |-> 0, last_amp |-> 0,
     delay |-> 0, has_sweep |-> with_sweep, sweep_frequency |-> 0,
     sweep_delay |-> 0, sweep_period |-> 0, sweep_shift |-> 0,
     sweep_by_adding |-> FALSE, volume_envelope |-> VolumeEnvelope_new,
     blip |-> BlipBuf_new]

\* SquareChannel::on
SquareChannel_on_nolength(c) == c.enabled

SquareChannel_on(c) == c.enabled /\ (~c.length_enabled \/ c.length < 64)

\* SquareChannel::calculate_period
calculate_period(c) ==
    IF c.frequency > 2048
    THEN [c EXCEPT !.period = 0]
    ELSE [c EXCEPT !.period = (2048 - c.frequency) * 4]

\* SquareChannel::step_length
step_length_nosat(c) ==
    IF c.length_enabled
    THEN [c EXCEPT !.length = (c.length + 1) % 256]
    ELSE c

step_length(c) ==
    IF c.length_enabled /\ c.length < 64
    THEN [c EXCEPT !.length = c.length + 1]
    ELSE c

\* SquareChannel::step_sweep
step_sweep_disabling(c) ==
    IF ~c.has_sweep \/ c.sweep_period = 0 THEN c
    ELSE IF c.sweep_delay > 1
    THEN [c EXCEPT !.sweep_delay = c.sweep_delay - 1]
    ELSE LET c1 == calculate_period([c EXCEPT !.sweep_delay = c.sweep_period,
                                              !.frequency = c.sweep_frequency])
             offset == Shr(c1.sweep_frequency, c1.sweep_shift)
         IN  IF c1.sweep_by_adding
             THEN IF c1.sweep_frequency >= 2048 - offset
                  THEN [c1 EXCEPT !.sweep_delay = 0, !.sweep_frequency = 2048,
                                  !.enabled = FALSE]
                  ELSE [c1 EXCEPT !.sweep_frequency = c1.sweep_frequency + offset]
             ELSE IF c1.sweep_frequency <= offset
                  THEN [c1 EXCEPT !.sweep_frequency = 0]
                  ELSE [c1 EXCEPT !.sweep_frequency = c1.sweep_frequency - offset]

step_sweep(c) ==
    IF ~c.has_sweep \/ c.sweep_period = 0 THEN c
    ELSE IF c.sweep_delay > 1
    THEN [c EXCEPT !.sweep_delay = c.sweep_delay - 1]
    ELSE LET c1 == calculate_period([c EXCEPT !.sweep_delay = c.sweep_period,
                                              !.frequency = c.sweep_frequency])
             offset == Shr(c1.sweep_frequency, c1.sweep_shift)
         IN  IF c1.sweep_by_adding
             THEN IF c1.sweep_frequency >= 2048 - offset
                  THEN [c1 EXCEPT !.sweep_delay = 0, !.sweep_frequency = 2048]
                  ELSE [c1 EXCEPT !.sweep_frequency = c1.sweep_frequency + offset]
             ELSE IF c1.sweep_frequency <= offset
                  THEN [c1 EXCEPT !.sweep_frequency = 0]
                  ELSE [c1 EXCEPT !.sweep_frequency = c1.sweep_frequency - offset]

\* SquareChannel::wb
SquareChannel_wb_scheduled(c, a, v) ==
    LET c1 ==
          IF a = NR10 /\ c.has_sweep
          THEN [c EXCEPT !.sweep_period = LowBits(Shr(v, 4), 3),
                         !.sweep_shift = LowBits(v, 3),
                         !.sweep_by_adding = Bit(v, 3)]
          ELSE IF a \in {NR11, NR21}
          THEN [c EXCEPT !.duty = Shr(v, 6),
                         !.length = LowBits(v, 6)]
          ELSE IF a \in {NR13, NR23}
          THEN calculate_period(
                 [c EXCEPT !.frequency = (c.frequency \div 256) * 256 + v])
          ELSE IF a \in {NR14, NR24}
          THEN LET c2 == calculate_period(
                           [c EXCEPT !.frequency = (c.frequency % 256) + LowBits(v, 3) * 256])
                   c3 == [c2 EXCEPT !.length_enabled = Bit(v, 6),
                                    !.enabled = Bit(v, 7),
                                    !.delay = 0,
                                    !.sweep_frequency = c2.frequency]
               IN  IF c3.has_sweep /\ c3.sweep_period > 0 /\ c3.sweep_shift > 0
                   THEN [c3 EXCEPT !.sweep_delay = 1]
                   ELSE c3
          ELSE c
    IN  [c1 EXCEPT !.volume_envelope = VolumeEnvelope_wb(c1.volume_envelope, a, v)]

SquareChannel_wb_sticky(c, a, v) ==
    LET c1 ==
          IF a = NR10 /\ c.has_sweep
          THEN [c EXCEPT !.sweep_period = LowBits(Shr(v, 4), 3),
                         !.sweep_shift = LowBits(v, 3),
                         !.sweep_by_adding = Bit(v, 3)]
          ELSE IF a \in {NR11, NR21}
          THEN [c EXCEPT !.duty = Shr(v, 6),
                         !.length = LowBits(v, 6)]
          ELSE IF a \in {NR13, NR23}
          THEN calculate_period(
                 [c EXCEPT !.frequency = (c.frequency \div 256) * 256 + v])
          ELSE IF a \in {NR14, NR24}
          THEN LET c2 == calculate_period(
                           [c EXCEPT !.frequency = (c.frequency % 256) + LowBits(v, 3) * 256])
                   c3 == [c2 EXCEPT !.length_enabled = Bit(v, 6),
                                    !.enabled = c2.enabled \/ Bit(v, 7),
                                    !.delay = 0,
                                    !.sweep_frequency = c2.frequency]
               IN  IF c3.has_sweep /\ c3.sweep_period > 0 /\ c3.sweep_shift > 0
                   THEN step_sweep([c3 EXCEPT !.sweep_delay = 1])
                   ELSE c3
          ELSE c
    IN  [c1 EXCEPT !.volume_envelope = VolumeEnvelope_wb(c1.volume_envelope, a, v)]

SquareChannel_wb(c, a, v) ==
    LET c1 ==
          IF a = NR10 /\ c.has_sweep
          THEN [c EXCEPT !.sweep_period = LowBits(Shr(v, 4), 3),
                         !.sweep_shift = LowBits(v, 3),
                         !.sweep_by_adding = Bit(v, 3)]
          ELSE IF a \in {NR11, NR21}
          THEN [c EXCEPT !.duty = Shr(v, 6),
                         !.length = LowBits(v, 6)]
          ELSE IF a \in {NR13, NR23}
          THEN calculate_period(
                 [c EXCEPT !.frequency = (c.frequency \div 256) * 256 + v])
          ELSE IF a \in {NR14, NR24}
          THEN LET c2 == calculate_period(
                           [c EXCEPT !.frequency = (c.frequency % 256) + LowBits(v, 3) * 256])
                   c3 == [c2 EXCEPT !.length_enabled = Bit(v, 6),
                                    !.enabled = Bit(v, 7),
                                    !.delay = 0,
                                    !.sweep_frequency = c2.frequency]
               IN  IF c3.has_sweep /\ c3.sweep_period > 0 /\ c3.sweep_shift > 0
                   THEN step_sweep([c3 EXCEPT !.sweep_delay = 1])
                   ELSE c3
          ELSE c
    IN  [c1 EXCEPT !.volume_envelope = VolumeEnvelope_wb(c1.volume_envelope, a, v)]

\* the while loop of SquareChannel::run, from the cursor `time` on
RECURSIVE run_loop_nocarry(_, _, _, _)
run_loop_nocarry(c, time, end_time, vol) ==
    IF time <= end_time
    THEN LET amp == vol * WAVE_PATTERN[c.duty + 1][c.phase + 1]
             c1 == IF amp # c.last_amp
                   THEN [c EXCEPT !.blip = add_delta(c.blip, time, amp - c.last_amp),
                                  !.last_amp = amp]
                   ELSE c
         IN  run_loop_nocarry([c1 EXCEPT !.phase = (c1.phase + 1) % 8],
                              time + c.period, end_time, vol)
    ELSE [c EXCEPT !.delay = 0]

RECURSIVE run_loop_absolute(_, _, _, _)
run_loop_absolute(c, time, end_time, vol) ==
    IF time <= end_time
    THEN LET amp == vol * WAVE_PATTERN[c.duty + 1][c.phase + 1]
             c1 == IF amp # c.last_amp
                   THEN [c EXCEPT !.blip = add_delta(c.blip, time, amp),
                                  !.last_amp = amp]
                   ELSE c
         IN  run_loop_absolute([c1 EXCEPT !.phase = (c1.phase + 1) % 8],
                               time + c.period, end_time, vol)
    ELSE [c EXCEPT !.delay = time - end_time]

RECURSIVE run_loop(_, _, _, _)
run_loop(c, time, end_time, vol) ==
    IF time <= end_time
    THEN LET amp == vol * WAVE_PATTERN[c.duty + 1][c.phase + 1]
             c1 == IF amp # c.last_amp
                   THEN [c EXCEPT !.blip = add_delta(c.blip, time, amp - c.last_amp),
                                  !.last_amp = amp]
                   ELSE c
         IN  run_loop([c1 EXCEPT !.phase = (c1.phase + 1) % 8],
                      time + c.period, end_time, vol)
    ELSE [c EXCEPT !.delay = time - end_time]

\* SquareChannel::run
SquareChannel_run_keepdelay(c, start_time, end_time) ==
    IF ~c.enabled \/ (c.length = 64 /\ c.length_enabled) \/ c.period = 0
    THEN IF c.last_amp # 0
         THEN [c EXCEPT !.blip = add_delta(c.blip, start_time, 0 - c.last_amp),
                        !.last_amp = 0]
         ELSE c
    ELSE run_loop(c, start_time + c.delay, end_time, c.volume_envelope.volume)

SquareChannel_run(c, start_time, end_time) ==
    IF ~c.enabled \/ (c.length = 64 /\ c.length_enabled) \/ c.period = 0
    THEN IF c.last_amp # 0
         THEN [c EXCEPT !.blip = add_delta(c.blip, start_time, 0 - c.last_amp),
                        !.last_amp = 0,
                        !.delay = 0]
         ELSE c
    ELSE run_loop(c, start_time + c.delay, end_time, c.volume_envelope.volume)

----------------------------------------------------------------------------
(* Sound *)

\* Sound::new
Sound_new ==
    [on |-> FALSE,
     registerdata |-> [i \in 0..22 |-> 0],
     time |-> 0, prev_time |-> 0, next_time |-> SEQ_TICKS, time_divider |-> 0,
     channel1 |-> SquareChannel_new(TRUE),
     channel2 |-> SquareChannel_new(FALSE),
     volume_left |-> 7, volume_right |-> 7]

\* one iteration of the while loop of Sound::run
run_tick(s) ==
    LET g1 == SquareChannel_run(s.channel1, s.prev_time, s.next_time)
        g2 == SquareChannel_run(s.channel2, s.prev_time, s.next_time)
        l1 == step_length(g1)
        l2 == step_length(g2)
        m1 == IF s.time_divider = 0
              THEN [l1 EXCEPT !.volume_envelope = VolumeEnvelope_step(l1.volume_envelope)]
              ELSE IF s.time_divider % 2 = 1
              THEN step_sweep(l1)
              ELSE l1
        m2 == IF s.time_divider = 0
              THEN [l2 EXCEPT !.volume_envelope = VolumeEnvelope_step(l2.volume_envelope)]
              ELSE l2
    IN  [s EXCEPT !.channel1 = m1,
                  !.channel2 = m2,
                  !.time_divider = (s.time_divider + 1) % 4,
                  !.prev_time = s.next_time,
                  !.next_time = s.next_time + SEQ_TICKS]

\* the calls one iteration of the while loop of Sound::run makes, in order
tick_calls_even(s) ==
    <<"run1", "run2", "length1", "length2">>
        \o (IF s.time_divider % 2 = 0 THEN <<"envelope1", "envelope2">>
            ELSE <<"sweep1">>)

tick_calls(s) ==
    <<"run1", "run2", "length1", "length2">>
        \o (IF s.time_divider = 0 THEN <<"envelope1", "envelope2">>
            ELSE IF s.time_divider % 2 = 1 THEN <<"sweep1">>
            ELSE <<>>)

\* one of these calls, made on the Sound object s
do_call(s, call) ==
    CASE call = "run1" ->
           [s EXCEPT !.channel1 = SquareChannel_run(s.channel1, s.prev_time, s.next_time)]
      [] call = "run2" ->
           [s EXCEPT !.channel2 = SquareChannel_run(s.channel2, s.prev_time, s.next_time)]
      [] call = "length1" -> [s EXCEPT !.channel1 = step_length(s.channel1)]
      [] call = "length2" -> [s EXCEPT !.channel2 = step_length(s.channel2)]
      [] call = "envelope1" ->
           [s EXCEPT !.channel1.volume_envelope = VolumeEnvelope_step(s.channel1.volume_envelope)]
      [] call = "envelope2" ->
           [s EXCEPT !.channel2.volume_envelope = VolumeEnvelope_step(s.channel2.volume_envelope)]
      [] call = "sweep1" -> [s EXCEPT !.channel1 = step_sweep(s.channel1)]
      [] call = "sweep2" -> [s EXCEPT !.channel2 = step_sweep(s.channel2)]

\* the calls of a sequence, made in order
RECURSIVE do_calls(_, _)
do_calls(s, calls) ==
    IF calls = <<>> THEN s ELSE do_calls(do_call(s, Head(calls)), Tail(calls))

\* Sound::run
RECURSIVE Sound_run(_)
Sound_run(s) ==
    IF s.next_time <= s.time THEN Sound_run(run_tick(s)) ELSE s

\* Sound::rb: the state it leaves and the byte it returns
Sound_rb(s, a) ==
    LET s1 == Sound_run(s) IN
    [sound |-> s1,
     ret |-> IF a >= NR10 /\ a <= NR51
             THEN s1.registerdata[a - REG_BASE]
             ELSE IF a = NR52
             THEN (s1.registerdata[a - REG_BASE] - LowBits(s1.registerdata[a - REG_BASE], 4))
                  + (IF SquareChannel_on(s1.channel1) THEN 1 ELSE 0)
                  + (IF SquareChannel_on(s1.channel2) THEN 2 ELSE 0)
             ELSE 0]

\* Sound::wb, its first line: the write is ignored
wb_ignored_ungated(s, a) == FALSE

wb_ignored(s, a) == a # NR52 /\ ~s.on

\* Sound::wb, the mirror of the byte in registerdata
wb_mirror_decoded(s, a, v) ==
    IF a >= NR10 /\ a <= NR52
    THEN [s EXCEPT !.registerdata[a - REG_BASE] =
                       IF a \in {NR14, NR24} THEN LowBits(v, 7) ELSE v]
    ELSE s

wb_mirror(s, a, v) ==
    IF a >= NR10 /\ a <= NR52
    THEN [s EXCEPT !.registerdata[a - REG_BASE] = v]
    ELSE s

\* Sound::wb, the match on the address
wb_decode(s, a, v) ==
    IF a >= NR10 /\ a <= NR14
    THEN [s EXCEPT !.channel1 = SquareChannel_wb(s.channel1, a, v)]
    ELSE IF a >= NR21 /\ a <= NR24
    THEN [s EXCEPT !.channel2 = SquareChannel_wb(s.channel2, a, v)]
    ELSE IF a = NR50
    THEN [s EXCEPT !.volume_left = LowBits(v, 3),
                   !.volume_right = LowBits(Shr(v, 4), 3)]
    ELSE IF a = NR52
    THEN [s EXCEPT !.on = Bit(v, 7)]
    ELSE s

\* Sound::wb
Sound_wb_late(s, a, v) ==
    IF wb_ignored(s, a) THEN s
    ELSE Sound_run(wb_decode(wb_mirror(s, a, v), a, v))

Sound_wb(s, a, v) ==
    IF wb_ignored(s, a) THEN s
    ELSE wb_decode(wb_mirror(Sound_run(s), a, v), a, v)

\* Sound::do_cycle
do_cycle(s, cycles) ==
    IF ~s.on THEN s ELSE [s EXCEPT !.time = s.time + cycles]

\* the states the while loop of Sound::run passes through, from s to its result
RECURSIVE run_states(_)
run_states(s) ==
    IF s.next_time <= s.time THEN {s} \cup run_states(run_tick(s)) ELSE {s}

\* Sound::do_output; voice_period is what voice.get_period() returns
do_output_norebase(s, voice_period) ==
    IF s.time >= voice_period
    THEN LET s1 == Sound_run(s) IN
         [s1 EXCEPT !.channel1.blip = end_frame(s1.channel1.blip, s1.prev_time),
                    !.channel2.blip = end_frame(s1.channel2.blip, s1.prev_time),
                    !.time = s1.time - s1.prev_time,
                    !.prev_time = 0]
    ELSE s

do_output_nocatchup(s, voice_period) ==
    IF s.time >= voice_period
    THEN [s EXCEPT !.channel1.blip = end_frame(s.channel1.blip, s.prev_time),
                   !.channel2.blip = end_frame(s.channel2.blip, s.prev_time),
                   !.time = s.time - s.prev_time,
                   !.next_time = s.next_time - s.prev_time,
                   !.prev_time = 0]
    ELSE s

do_output(s, voice_period) ==
    IF s.time >= voice_period
    THEN LET s1 == Sound_run(s) IN
         [s1 EXCEPT !.channel1.blip = end_frame(s1.channel1.blip, s1.prev_time),
                    !.channel2.blip = end_frame(s1.channel2.blip, s1.prev_time),
                    !.time = s1.time - s1.prev_time,
                    !.next_time = s1.next_time - s1.prev_time,
                    !.prev_time = 0]
    ELSE s

----------------------------------------------------------------------------
(* Spec: a Sound object and its callers *)

\* the (address, byte) pairs the model writes
WriteSet ==
    {<<NR10, 25>>,                       \* sweep period 1, shift 1, adding
     <<NR11, 190>>,                      \* duty 2, length 62
     <<NR12, 241>>,                      \* volume 15, decreasing, envelope period 1
     <<NR14, 198>>,                      \* trigger, length enabled, frequency high 6
     <<NR14, 6>>,                        \* no trigger, frequency high 6
     <<NR21, 63>>,                       \* duty 0, length 63
     <<NR24, 198>>,                      \* trigger, length enabled, frequency high 6
     <<NR50, 83>>,                       \* master volumes 3 and 5
     <<NR52, 128>>, <<NR52, 127>>,       \* power on, power off
     <<WAVE0, 85>>}                      \* outside the block

\* the addresses the model reads
ReadSet == {NR14, NR52, WAVE0}

\* the cycle counts the model passes to do_cycle
CycleSet == {SEQ_TICKS \div 2, 2 * SEQ_TICKS}

\* the values voice.get_period() returns
VoicePeriodSet == {2 * SEQ_TICKS}

\* the addresses registerdata holds
RegAddrs == NR10 .. NR52

InitSound ==
    /\ sound = Sound_new
    /\ seq_log = <<>>
    /\ ret = -1
    /\ clock = 0
    /\ written = [a \in RegAddrs |-> -1]

Rb(a) ==
    /\ sound' = Sound_rb(sound, a).sound
    /\ ret' = Sound_rb(sound, a).ret
    /\ UNCHANGED <<clock, written, envVars, chanVars, seqVars>>

Wb(a, v) ==
    /\ Cardinality({x \in RegAddrs : written[x] # -1} \cup {a}) <= MaxRegs
    /\ sound' = Sound_wb(sound, a, v)
    /\ written' = IF a \in RegAddrs /\ (sound.on \/ a = NR52)
                  THEN [written EXCEPT ![a] = v]
                  ELSE written
    /\ ret' = -1
    /\ UNCHANGED <<clock, envVars, chanVars, seqVars>>

DoCycle(cycles) ==
    /\ clock + cycles <= MaxHalfTicks * (SEQ_TICKS \div 2)
    /\ sound' = do_cycle(sound, cycles)
    /\ clock' = clock + cycles
    /\ ret' = -1
    /\ UNCHANGED <<written, envVars, chanVars, seqVars>>

DoOutput(voice_period) ==
    /\ sound' = do_output(sound, voice_period)
    /\ ret' = -1
    /\ UNCHANGED <<clock, written, envVars, chanVars, seqVars>>

Next ==
    \/ \E a \in ReadSet : Rb(a)
    \/ \E w \in WriteSet : Wb(w[1], w[2])
    \/ \E cycles \in CycleSet : DoCycle(cycles)
    \/ \E p \in VoicePeriodSet : DoOutput(p)

----------------------------------------------------------------------------
(* SpecEnv: a VolumeEnvelope object and the calls of its methods *)

\* the bytes the model writes to an envelope control register:
\* period + 8 * goes_up + 16 * initial_volume
EnvControlSet ==
    {p + 8 * d + 16 * iv : p \in 0 .. 7, d \in {0, 1}, iv \in {0, 1, 14, 15}}

\* the (address, byte) pairs the model passes to VolumeEnvelope::wb
EnvWriteSet ==
    ({NR12} \X EnvControlSet)
        \cup {<<NR22, 26>>, <<NR42, 243>>,
              <<NR14, 128>>, <<NR14, 64>>, <<NR24, 135>>, <<NR44, 192>>,
              <<NR10, 255>>, <<NR13, 129>>}

IsEnvControl(a) == a \in {NR12, NR22, NR42}

IsTriggerAddr(a) == a \in {NR14, NR24, NR44}

InitEnv == env = VolumeEnvelope_new /\ env_since = -1

\* env_since counts the calls of step() since the countdown was reloaded: it is
\* 0 after a trigger write and after a step that found the countdown at 1, and
\* starts again after as many calls as the period; it is -1 (unknown) from a
\* write of the control register to the next reload.
EnvWb(a, v) ==
    /\ env' = VolumeEnvelope_wb(env, a, v)
    /\ env_since' = IF IsEnvControl(a) THEN -1
                    ELSE IF IsTriggerAddr(a) /\ v >= 128 THEN 0
                    ELSE env_since
    /\ UNCHANGED <<soundVars, chanVars, seqVars>>

EnvStep ==
    /\ env' = VolumeEnvelope_step(env)
    /\ env_since' = IF env.delay = 1 THEN 0
                    ELSE IF env_since = -1 \/ env.period = 0 THEN env_since
                    ELSE IF env_since + 1 >= env.period THEN 0
                    ELSE env_since + 1
    /\ UNCHANGED <<soundVars, chanVars, seqVars>>

NextE ==
    \/ \E w \in EnvWriteSet : EnvWb(w[1], w[2])
    \/ EnvStep

----------------------------------------------------------------------------
(* SpecChan: a SquareChannel object and the calls of its methods *)

\* the methods of the channel are called at most this many times in all
MaxCalls == 8

\* the (address, byte) pairs the model passes to SquareChannel::wb; a channel
\* without sweep is channel 2 and gets the addresses of channel 2
ChanWriteSet(with_sweep) ==
    IF with_sweep
    THEN {<<NR10, 25>>, <<NR10, 17>>,    \* sweep period 1, shift 1, adding / subtracting
          <<NR10, 24>>,                  \* sweep period 1, shift 0, adding
          <<NR10, 42>>,                  \* sweep period 2, shift 2, adding
          <<NR11, 190>>,                 \* duty 2, length 62
          <<NR12, 241>>,                 \* volume 15, decreasing, envelope period 1
          <<NR13, 128>>,                 \* frequency low
          <<NR14, 198>>, <<NR14, 132>>,  \* trigger with / without length, frequency high 6 / 4
          <<NR14, 70>>}                  \* no trigger, length enabled
    ELSE {<<NR10, 25>>,                  \* not a register of channel 2
          <<NR21, 63>>,                  \* duty 0, length 63
          <<NR22, 26>>,                  \* volume 1, increasing, envelope period 2
          <<NR23, 128>>,
          <<NR24, 198>>, <<NR24, 6>>}

\* the start times the model passes to SquareChannel::run
StartSet == {0, SEQ_TICKS}

InitChan ==
    /\ chan = SquareChannel_new(TRUE)
    /\ chan_calls = 0
    /\ chan_overflow = FALSE

\* step_sweep applied to c computes a new frequency, in add mode, and it overflows
SweepOverflows(c) ==
    /\ c.has_sweep /\ c.sweep_period # 0 /\ c.sweep_delay <= 1
    /\ c.sweep_by_adding
    /\ c.sweep_frequency + Shr(c.sweep_frequency, c.sweep_shift) >= 2048

\* the channel SquareChannel::wb passes to step_sweep in a write of 0xFF14 / 0xFF19
TriggerSweepArg(c, a, v) ==
    LET c2 == calculate_period(
                [c EXCEPT !.frequency = (c.frequency % 256) + LowBits(v, 3) * 256])
    IN  [c2 EXCEPT !.length_enabled = Bit(v, 6),
                   !.enabled = Bit(v, 7),
                   !.delay = 0,
                   !.sweep_frequency = c2.frequency,
                   !.sweep_delay = 1]

ChanWb(a, v) ==
    /\ chan' = SquareChannel_wb(chan, a, v)
    /\ chan_overflow' =
         IF a \in {NR14, NR24}
         THEN chan.has_sweep /\ chan.sweep_period > 0 /\ chan.sweep_shift > 0
              /\ SweepOverflows(TriggerSweepArg(chan, a, v))
         ELSE chan_overflow
    /\ chan_calls < MaxCalls
    /\ chan_calls' = chan_calls + 1
    /\ UNCHANGED <<soundVars, envVars, seqVars>>

ChanRun(start_time) ==
    /\ chan_calls < MaxCalls
    /\ chan' = SquareChannel_run(chan, start_time, start_time + SEQ_TICKS)
    /\ chan_calls' = chan_calls + 1
    /\ UNCHANGED <<chan_overflow, soundVars, envVars, seqVars>>

ChanStepLength ==
    /\ chan_calls < MaxCalls
    /\ chan' = step_length(chan)
    /\ chan_calls' = chan_calls + 1
    /\ UNCHANGED <<chan_overflow, soundVars, envVars, seqVars>>

ChanStepEnvelope ==
    /\ chan_calls < MaxCalls
    /\ chan' = [chan EXCEPT !.volume_envelope = VolumeEnvelope_step(chan.volume_envelope)]
    /\ chan_calls' = chan_calls + 1
    /\ UNCHANGED <<chan_overflow, soundVars, envVars, seqVars>>

ChanStepSweep ==
    /\ chan_calls < MaxCalls
    /\ chan' = step_sweep(chan)
    /\ chan_overflow' = (chan_overflow \/ SweepOverflows(chan))
    /\ chan_calls' = chan_calls + 1
    /\ UNCHANGED <<soundVars, envVars, seqVars>>

NextC ==
    \/ \E w \in ChanWriteSet(chan.has_sweep) : ChanWb(w[1], w[2])
    \/ \E start_time \in StartSet : ChanRun(start_time)
    \/ ChanStepLength
    \/ ChanStepEnvelope
    \/ ChanStepSweep

----------------------------------------------------------------------------
(* SpecSeq: a Sound object, its callers and the log of the sequencer's calls *)

\* the caller's clock runs for at most this many sequencer ticks (SpecSeq)
MaxSeqTicks == 5

\* the (address, byte) pairs the model writes
SeqWriteSet ==
    {<<NR52, 128>>, <<NR52, 0>>,         \* power on, power off
     <<NR10, 25>>,                       \* sweep period 1, shift 1, adding
     <<NR14, 196>>,                      \* trigger, length enabled, frequency high 4
     <<NR24, 134>>}                      \* trigger, frequency high 6

\* the cycle counts the model passes to do_cycle
SeqCycleSet == {SEQ_TICKS, 2 * SEQ_TICKS}

\* the log after one more tick: the calls of the last four ticks
Logged(log, calls) ==
    IF Len(log) < 4 THEN Append(log, calls) ELSE Append(Tail(log), calls)

\* the log after Sound::run on s
RECURSIVE log_run(_, _)
log_run(s, log) ==
    IF s.next_time <= s.time
    THEN log_run(run_tick(s), Logged(log, tick_calls(s)))
    ELSE log

SeqRb(a) ==
    /\ sound' = Sound_rb(sound, a).sound
    /\ ret' = Sound_rb(sound, a).ret
    /\ seq_log' = log_run(sound, seq_log)
    /\ UNCHANGED <<clock, written, envVars, chanVars>>

SeqWb(a, v) ==
    /\ Cardinality({x \in RegAddrs : written[x] # -1} \cup {a}) <= MaxRegs
    /\ sound' = Sound_wb(sound, a, v)
    /\ written' = IF a \in RegAddrs /\ (sound.on \/ a = NR52)
                  THEN [written EXCEPT ![a] = v]
                  ELSE written
    /\ ret' = -1
    /\ seq_log' = IF wb_ignored(sound, a) THEN seq_log ELSE log_run(sound, seq_log)
    /\ UNCHANGED <<clock, envVars, chanVars>>

SeqDoCycle(cycles) ==
    /\ clock + cycles <= MaxSeqTicks * SEQ_TICKS
    /\ sound' = do_cycle(sound, cycles)
    /\ clock' = clock + cycles
    /\ ret' = -1
    /\ UNCHANGED <<written, envVars, chanVars, seqVars>>

SeqDoOutput(voice_period) ==
    /\ sound' = do_output(sound, voice_period)
    /\ ret' = -1
    /\ seq_log' = IF sound.time >= voice_period THEN log_run(sound, seq_log) ELSE seq_log
    /\ UNCHANGED <<clock, written, envVars, chanVars>>

NextS ==
    \/ SeqRb(NR52)
    \/ \E w \in SeqWriteSet : SeqWb(w[1], w[2])
    \/ \E cycles \in SeqCycleSet : SeqDoCycle(cycles)
    \/ \E p \in VoicePeriodSet : SeqDoOutput(p)

----------------------------------------------------------------------------
(* The specifications *)

Init == InitSound /\ InitEnv /\ InitChan

Spec == Init /\ [][Next]_vars

SpecEnv == Init /\ [][NextE]_vars

\* SpecChan starts from channel 1 (with sweep) or channel 2 (without)
InitC ==
    /\ InitSound /\ InitEnv
    /\ chan \in {SquareChannel_new(TRUE), SquareChannel_new(FALSE)}
    /\ chan_calls = 0
    /\ chan_overflow = FALSE

SpecChan == InitC /\ [][NextC]_vars

SpecSeq == Init /\ [][NextS]_vars

----------------------------------------------------------------------------
(* The claims about the register interface and the timing (Spec) *)

\* the bytes the invariants below pass to Sound::wb
ProbeBytes == {0, 64, 128, 198, 255}

\* the trigger bytes (bit 7 set) the invariants below pass to Sound::wb
TriggerBytes == {128, 198, 255}

\* C1: while the unit is powered off, a write to any address but 0xFF26 and
\* any advance leave the whole state of the Sound object unchanged.
C1_PoweredOffUnchanged ==
    ~sound.on =>
        /\ \A a \in (RegAddrs \ {NR52}) \cup {WAVE0} : \A v \in ProbeBytes :
               Sound_wb(sound, a, v) = sound
        /\ \A cycles \in CycleSet \cup {1, 4} : do_cycle(sound, cycles) = sound

\* C1 witness: powered off after channel 1 was triggered, and the caller's
\* clock has run on while time stood still.
C1_Witness ==
    /\ ~sound.on /\ written[NR52] = 127
    /\ sound.channel1.enabled
    /\ sound.time = SEQ_TICKS \div 2 /\ sound.time_divider = 0
    /\ clock > sound.time

\* C2: a read of 0xFF26 returns the upper nibble last written to 0xFF26, bit 0
\* iff channel 1 is enabled and not length-silenced, bit 1 iff channel 2 is,
\* bits 2-3 clear, all taken after the sequencer has caught up with time.
C2_StatusRead ==
    LET r == Sound_rb(sound, NR52)
        c1 == r.sound.channel1
        c2 == r.sound.channel2
    IN  /\ r.sound.next_time > r.sound.time
        /\ written[NR52] # -1 => r.ret \div 16 = written[NR52] \div 16
        /\ (r.ret % 2 = 1) <=> (c1.enabled /\ (~c1.length_enabled \/ c1.length < 64))
        /\ ((r.ret \div 2) % 2 = 1) <=> (c2.enabled /\ (~c2.length_enabled \/ c2.length < 64))
        /\ (r.ret \div 4) % 4 = 0

\* C2 witness: the read returned 0x81 with channel 1 on and channel 2 off.
C2_Witness ==
    /\ ret = 129 /\ sound.on
    /\ sound.channel1.enabled /\ ~sound.channel2.enabled

\* C3: a read of an address in 0xFF10..0xFF25 returns the byte of the last
\* accepted write to it, whatever happened since.
C3_ReadBack ==
    \A a \in NR10 .. NR51 :
        written[a] # -1 => Sound_rb(sound, a).ret = written[a]

\* C3 witness: 0xFF14 read back as written after sequencer ticks and a sweep
\* step that replaced the frequency the byte was decoded to.
C3_Witness ==
    /\ ret = 198 /\ written[NR14] = 198
    /\ sound.channel1.frequency = 2048
    /\ sound.time_divider >= 2

\* C4: while powered on, a write to 0xFF14 / 0xFF19 with bit 7 set leaves the
\* channel enabled and with carry-over delay 0.
C4_TriggerEnables ==
    sound.on =>
        \A v \in TriggerBytes :
            /\ Sound_wb(sound, NR14, v).channel1.enabled
            /\ Sound_wb(sound, NR14, v).channel1.delay = 0
            /\ Sound_wb(sound, NR24, v).channel2.enabled
            /\ Sound_wb(sound, NR24, v).channel2.delay = 0

\* C4 witness: channel 1 right after a trigger whose sweep recalculation ran
\* (and overflowed), written over a channel that carried a delay.
C4_Witness ==
    /\ sound.on /\ written[NR14] = 198
    /\ sound.channel1.enabled /\ sound.channel1.delay = 0
    /\ sound.channel1.sweep_frequency = 2048 /\ sound.channel1.frequency = 1536
    /\ sound.channel1.phase # 1

\* C10: next_time - prev_time is exactly one sequencer step, in every state
\* and in every state the loop of run passes through, so run calls the
\* channels' run on intervals of exactly 16384 ticks.
C10_TickInterval ==
    \A s \in run_states(sound) :
        /\ s.next_time - s.prev_time = SEQ_TICKS
        /\ s.prev_time >= 0

\* C10 witness: ticks were processed, the times were rebased by do_output and
\* time has advanced again.
C10_Witness ==
    /\ sound.time_divider = 2 /\ sound.prev_time = 0
    /\ sound.next_time <= sound.time

\* the writes the invariant below passes to Sound::wb: a trigger, an envelope
\* control byte, power off and on, an address outside the register block
CatchUpWrites ==
    {<<NR14, 198>>, <<NR12, 241>>, <<NR52, 127>>, <<NR52, 128>>, <<WAVE0, 85>>}

\* C17: when rb or wb returns no sequencer tick is pending (next_time > time),
\* with the unit on or off and the address inside or outside the register
\* block, and the access is decoded after the pending ticks: it gives what
\* it gives when the ticks are processed first.
C17_CatchUp ==
    LET caught_up == Sound_run(sound) IN
    /\ \A a \in ReadSet :
          LET r == Sound_rb(sound, a) IN
          /\ r.sound.next_time > r.sound.time
          /\ r = Sound_rb(caught_up, a)
    /\ \A w \in CatchUpWrites :
          LET s1 == Sound_wb(sound, w[1], w[2]) IN
          /\ s1.next_time > s1.time
          /\ s1 = Sound_wb(caught_up, w[1], w[2])

\* C17 witness: a read outside the register block has returned, two and a
\* half ticks after the start, with two ticks processed and none pending.
C17_Witness ==
    /\ ret = 0 /\ sound.on /\ written[NR14] = 198
    /\ sound.time = 5 * (SEQ_TICKS \div 2)
    /\ sound.prev_time = 2 * SEQ_TICKS /\ sound.next_time = 3 * SEQ_TICKS

\* the periods of the output device the invariant below passes to do_output
ProbePeriods == VoicePeriodSet \cup {SEQ_TICKS + 1}

\* C18: do_output changes nothing while time is below the period of the
\* output device; when due it catches up, closes the frame of both
\* accumulators and rebases: prev_time = 0, next_time = 16384 and time is the
\* caught-up time minus the caught-up prev_time, within 0 .. 16383; the
\* subtraction cannot underflow, prev_time <= time in every state.
C18_FlushRebase ==
    /\ sound.prev_time <= sound.time
    /\ \A p \in ProbePeriods :
          LET s1 == do_output(sound, p)
              r == Sound_run(sound)
          IN  IF sound.time < p
              THEN s1 = sound
              ELSE /\ s1.prev_time = 0
                   /\ s1.next_time = SEQ_TICKS
                   /\ s1.time = r.time - r.prev_time
                   /\ s1.time \in 0 .. SEQ_TICKS - 1
                   /\ s1.channel1.blip.last_t = -1
                   /\ s1.channel2.blip.last_t = -1
                   /\ s1.time_divider = r.time_divider
                   /\ s1.channel1.last_amp = r.channel1.last_amp
                   /\ s1.channel1.delay = r.channel1.delay

\* C18 witness: with the clock at two and a half ticks do_output has caught
\* up two ticks and rebased: half a tick is left over.
C18_Witness ==
    /\ sound.on /\ sound.time_divider = 2
    /\ sound.prev_time = 0 /\ sound.next_time = SEQ_TICKS
    /\ sound.time = SEQ_TICKS \div 2
    /\ clock = 5 * (SEQ_TICKS \div 2)

----------------------------------------------------------------------------
(* The claims about the volume envelope (SpecEnv) *)

\* the volume one step away in the configured direction, kept within 0..15
EnvAdjusted(e) ==
    IF e.goes_up
    THEN (IF e.volume < 15 THEN e.volume + 1 ELSE e.volume)
    ELSE (IF e.volume > 0 THEN e.volume - 1 ELSE e.volume)

\* C5: with period p in 1..7 and no control register write since the reload,
\* the first p-1 calls of step() after the reload leave volume unchanged and
\* the p-th moves it by one in the configured direction (not beyond 0 or 15)
\* and reloads the countdown to p.
C5_EnvelopeTiming ==
    [][ (EnvStep /\ env_since >= 0 /\ env.period \in 1 .. 7) =>
            IF env_since + 1 < env.period
            THEN env'.volume = env.volume
            ELSE /\ env'.volume = EnvAdjusted(env)
                 /\ env'.delay = env.period ]_vars

\* C5 witness: period 3, decreasing, the third step after a trigger has just
\* taken one off the volume and reloaded the countdown.
C5_Witness ==
    /\ env.period = 3 /\ ~env.goes_up /\ env_since = 0
    /\ env.delay = 3 /\ env.volume = env.initial_volume - 1

\* C6: while the period of the envelope is 0, step() leaves volume unchanged.
C6_PausedEnvelope ==
    [][ (EnvStep /\ env.period = 0) => env'.volume = env.volume ]_vars

\* C9: volume and initial_volume stay within 0..15, and a step at volume 15
\* while increasing, or at volume 0 while decreasing, leaves volume unchanged.
C9_VolumeRange ==
    /\ env.volume \in 0 .. 15
    /\ env.initial_volume \in 0 .. 15
    /\ (env.goes_up /\ env.volume = 15) => VolumeEnvelope_step(env).volume = 15
    /\ (~env.goes_up /\ env.volume = 0) => VolumeEnvelope_step(env).volume = 0

\* C9 witness: an increasing envelope that has stepped from 14 up to 15 and is
\* one call of step() away from adjusting again.
C9_Witness ==
    /\ env.goes_up /\ env.volume = 15 /\ env.initial_volume = 14
    /\ env.delay = 1 /\ env_since >= 0

----------------------------------------------------------------------------
(* The claims about the sweep and the length counter (SpecChan) *)

\* C7: once a sweep calculation in add mode has overflowed, the channel has
\* period 0, and until the next write of 0xFF14 a sweep step changes none of
\* sweep_frequency, frequency and period.
C7_OverflowSilences ==
    [][ /\ chan_overflow' => chan'.period = 0
        /\ (chan_overflow /\ chan_overflow' /\ ChanStepSweep) =>
               /\ chan'.sweep_frequency = chan.sweep_frequency
               /\ chan'.frequency = chan.frequency
               /\ chan'.period = chan.period ]_vars

\* the step is a write of a byte with bit 7 set to 0xFF14 / 0xFF19
IsTriggerWrite ==
    \E w \in ChanWriteSet(chan.has_sweep) :
        w[1] \in {NR14, NR24} /\ w[2] >= 128 /\ ChanWb(w[1], w[2])

\* the step is a write to 0xFF11 / 0xFF16
IsLengthWrite ==
    \E w \in ChanWriteSet(chan.has_sweep) :
        w[1] \in {NR11, NR21} /\ ChanWb(w[1], w[2])

\* what the claim says a length step does
LengthStepped(c) ==
    IF c.length_enabled /\ c.length < 64 THEN c.length + 1 ELSE c.length

\* C8 as claimed: length never exceeds 64, a length step adds 1 exactly while
\* length_enabled and length < 64, and length decreases only in a trigger write.
C8_LengthOriginal ==
    [][ /\ chan'.length <= 64
        /\ ChanStepLength => chan'.length = LengthStepped(chan)
        /\ chan'.length < chan.length => IsTriggerWrite ]_vars

\* C8 as amended: length never exceeds 64, a length step adds 1 exactly while
\* length_enabled and length < 64, and length decreases only in a write to
\* the duty/length register 0xFF11 / 0xFF16.
C8_LengthCounter ==
    [][ /\ chan'.length <= 64
        /\ ChanStepLength => chan'.length = LengthStepped(chan)
        /\ chan'.length < chan.length => IsLengthWrite ]_vars

\* C8 witness: the length counter was stepped from 62 up to 64 and a further
\* step has left it there.
C8_Witness ==
    /\ chan.length = 64 /\ chan.length_enabled /\ chan.enabled
    /\ chan_calls >= 5

----------------------------------------------------------------------------
(* The claims about the waveform generator (SpecChan) *)

\* run() takes the branch that generates the waveform
Audible(c) == c.enabled /\ ~(c.length = 64 /\ c.length_enabled) /\ c.period > 0

\* the phase steps of run(start_time, start_time + SEQ_TICKS) on c, counted
\* from 0: how many there are, when each happens and the amplitude it sets
StepCount(c, start_time) ==
    IF c.delay > SEQ_TICKS THEN 0
    ELSE (SEQ_TICKS - c.delay) \div c.period + 1

StepTime(c, start_time, k) == start_time + c.delay + k * c.period

StepAmp(c, k) ==
    c.volume_envelope.volume * WAVE_PATTERN[c.duty + 1][((c.phase + k) % 8) + 1]

\* the steps whose amplitude differs from the one before
StepsEmitting(c, start_time) ==
    {k \in 0 .. StepCount(c, start_time) - 1 :
        StepAmp(c, k) # (IF k = 0 THEN c.last_amp ELSE StepAmp(c, k - 1))}

SetMax(S) == CHOOSE k \in S : \A j \in S : j <= k

\* C11: a call of run on an audible channel steps the phase at start + delay
\* and then every `period` ticks up to the end of the interval, and leaves as
\* delay the distance from the end to the next step, so that the next call
\* continues exactly `period` after the last step; each step sets the
\* amplitude volume * WAVE_PATTERN[duty][phase] and advances phase by 1 mod 8,
\* and a delta is emitted exactly at the steps whose amplitude differs from
\* the one before; with duty 2, frequency 1024 and volume 15 the steps are
\* 4096 ticks apart and follow 15 * [-1,-1,1,1,1,1,-1,-1].
C11_Waveform ==
    [][ \A st \in StartSet :
          (ChanRun(st) /\ Audible(chan)) =>
            LET n == StepCount(chan, st)
                emitting == StepsEmitting(chan, st)
            IN  /\ n >= 1
                /\ chan'.phase = (chan.phase + n) % 8
                /\ st + SEQ_TICKS + chan'.delay = StepTime(chan, st, n - 1) + chan.period
                /\ chan'.delay \in 1 .. chan.period
                /\ chan'.last_amp = StepAmp(chan, n - 1)
                /\ chan'.blip.level - chan.blip.level = chan'.last_amp - chan.last_amp
                /\ chan'.blip.last_t =
                      IF emitting = {} THEN chan.blip.last_t
                      ELSE StepTime(chan, st, SetMax(emitting))
                /\ (chan.duty = 2 /\ chan.frequency = 1024
                        /\ chan.volume_envelope.volume = 15) =>
                      /\ chan.period = 4096
                      /\ \A k \in 0 .. n - 1 :
                            StepAmp(chan, k) =
                              15 * <<-1, -1, 1, 1, 1, 1, -1, -1>>[((chan.phase + k) % 8) + 1]
      ]_vars

\* C11 witness: duty 2, frequency 1024, volume 15 after two calls of run on
\* adjoining intervals: nine steps from phase 1, the last delta at 20480
\* (16384 + the carried delay 4096), the next step 4096 after the last.
C11_Witness ==
    /\ Audible(chan) /\ chan.duty = 2 /\ chan.frequency = 1024
    /\ chan.volume_envelope.volume = 15
    /\ chan.phase = 2 /\ chan.delay = 4096
    /\ chan.last_amp = -15 /\ chan.blip.level = -15
    /\ chan.blip.last_t = SEQ_TICKS + 4096

\* C12: a frequency of 2048 or above goes with period 0, and a call of run on
\* a channel with period 0, whatever enabled and the length counter are,
\* leaves phase alone and emits no delta but one at start_time that takes the
\* output back to 0 when last_amp was not 0, setting last_amp and delay to 0.
C12_PeriodZeroSilent ==
    [][ /\ chan'.frequency >= 2048 => chan'.period = 0
        /\ \A st \in StartSet :
              (ChanRun(st) /\ chan.period = 0) =>
                /\ chan'.phase = chan.phase
                /\ chan'.last_amp = 0
                /\ chan'.blip.level = chan.blip.level - chan.last_amp
                /\ IF chan.last_amp # 0
                   THEN chan'.blip.last_t = st /\ chan'.delay = 0
                   ELSE chan'.blip = chan.blip
      ]_vars

\* C12 witness: the sweep has put the sentinel 2048 into frequency while the
\* enabled channel was sounding, and the next call of run, from 16384, has
\* taken the output back to 0 there.
C12_Witness ==
    /\ chan.frequency = 2048 /\ chan.period = 0
    /\ chan.enabled /\ ~(chan.length_enabled /\ chan.length = 64)
    /\ chan.volume_envelope.volume > 0
    /\ chan.last_amp = 0 /\ chan.blip.level = 0 /\ chan.blip.last_t = SEQ_TICKS
    /\ chan.delay = 0 /\ chan.phase # 1

\* C14: every delta a call run(start_time, end_time) emits is stamped with a
\* time t, start_time <= t < end_time; none is stamped at end_time.  (The
\* deltas of a call are stamped in increasing order from start_time + delay
\* on, so the bound is stated of the last one, blip.last_t.)
C14_HalfOpen ==
    [][ \A st \in StartSet :
          (ChanRun(st) /\ chan'.blip # chan.blip) =>
            /\ st <= chan'.blip.last_t
            /\ chan'.blip.last_t < st + SEQ_TICKS ]_vars

\* C19: the deltas emitted to the accumulator of the channel add up to
\* last_amp, last_amp is within -15 .. 15, and a call of run on a channel that
\* is off (not enabled, silenced by the length counter, or period 0) leaves
\* the accumulated level at 0.
C19_DeltaSum ==
    /\ chan.blip.level = chan.last_amp
    /\ chan.last_amp \in -15 .. 15
    /\ ~Audible(chan) =>
          \A st \in StartSet :
              SquareChannel_run(chan, st, st + SEQ_TICKS).blip.level = 0

\* C19 witness: a sounding channel that the length counter has silenced, and
\* the call of run after that, from 16384, has taken the level back to 0.
C19_Witness ==
    /\ chan.enabled /\ chan.length_enabled /\ chan.length = 64
    /\ chan.period > 0 /\ chan.volume_envelope.volume = 15
    /\ chan.last_amp = 0 /\ chan.blip.level = 0
    /\ chan.blip.last_t = SEQ_TICKS

----------------------------------------------------------------------------
(* The claims about the sweep unit (SpecChan) *)

\* C13: a sweep step made while the sweep shift is 0, or while the sweep
\* period is 0, or on a channel without sweep unit, changes none of
\* sweep_frequency, frequency and period.
C13_SweepGate ==
    [][ (ChanStepSweep /\ (chan.sweep_shift = 0 \/ chan.sweep_period = 0
                              \/ ~chan.has_sweep)) =>
            /\ chan'.sweep_frequency = chan.sweep_frequency
            /\ chan'.frequency = chan.frequency
            /\ chan'.period = chan.period ]_vars

\* the 11-bit frequency a write of v to 0xFF14 / 0xFF19 completes: the low
\* byte the channel holds and the three bits of v above it
WrittenFrequency(c, v) == (c.frequency % 256) + (v % 8) * 256

\* the sweep unit of c is active
SweepActive(c) == c.has_sweep /\ c.sweep_period > 0 /\ c.sweep_shift > 0

\* C16: a write to 0xFF14 with bit 7 set while the sweep is active (sweep
\* period > 0 and shift > 0) leaves frequency at the written frequency f and
\* sweep_frequency once swept: f + (f >> shift) in add mode, or 2048 with
\* sweep_delay 0 if that sum is 2048 or more, f - (f >> shift) but not below
\* 0 in subtract mode, and sweep_delay at the sweep period unless it
\* overflowed; with sweep period 0 or shift 0, and on channel 2,
\* sweep_frequency is f after the write.
C16_TriggerSweep ==
    [][ \A w \in ChanWriteSet(chan.has_sweep) :
          (ChanWb(w[1], w[2]) /\ w[1] \in {NR14, NR24} /\ w[2] >= 128) =>
            LET f == WrittenFrequency(chan, w[2])
                offset == f \div (2 ^ chan.sweep_shift)
            IN  IF SweepActive(chan)
                THEN /\ chan'.frequency = f
                     /\ IF chan.sweep_by_adding
                        THEN IF f + offset >= 2048
                             THEN chan'.sweep_frequency = 2048 /\ chan'.sweep_delay = 0
                             ELSE /\ chan'.sweep_frequency = f + offset
                                  /\ chan'.sweep_delay = chan.sweep_period
                        ELSE /\ chan'.sweep_frequency =
                                    (IF f - offset < 0 THEN 0 ELSE f - offset)
                             /\ chan'.sweep_delay = chan.sweep_period
                ELSE chan'.sweep_frequency = f /\ chan'.frequency = f
      ]_vars

\* C16 witness: a trigger with frequency 1024 under sweep period 2, shift 2,
\* add mode: frequency 1024, sweep_frequency 1024 + 256, countdown 2.
C16_Witness ==
    /\ SweepActive(chan) /\ chan.sweep_by_adding
    /\ chan.sweep_period = 2 /\ chan.sweep_shift = 2
    /\ chan.enabled /\ chan.delay = 0
    /\ chan.frequency = 1024 /\ chan.sweep_frequency = 1280
    /\ chan.sweep_delay = 2

----------------------------------------------------------------------------
(* The claim about a write of 0xFF14 / 0xFF19 without the trigger bit (SpecChan) *)

\* what one sweep calculation makes of the frequency f
SweptOnce(f, shift, adding) ==
    LET offset == f \div (2 ^ shift) IN
    IF adding
    THEN (IF f + offset >= 2048 THEN 2048 ELSE f + offset)
    ELSE (IF f <= offset THEN 0 ELSE f - offset)

\* C20: a write to 0xFF14 / 0xFF19 with bit 7 clear sets enabled to false,
\* length_enabled to bit 6 and delay to 0, copies the new frequency into
\* sweep_frequency and, on a channel whose sweep is active, sweeps it once,
\* and leaves delay and volume of the envelope alone; after it on() is false
\* and the next call of run takes the output back to 0.
C20_NoTriggerWrite ==
    [][ \A w \in ChanWriteSet(chan.has_sweep) :
          (ChanWb(w[1], w[2]) /\ w[1] \in {NR14, NR24} /\ w[2] < 128) =>
            LET f == WrittenFrequency(chan, w[2]) IN
            /\ ~chan'.enabled
            /\ chan'.length_enabled = ((w[2] \div 64) % 2 = 1)
            /\ chan'.delay = 0
            /\ chan'.frequency = f
            /\ chan'.sweep_frequency =
                  IF SweepActive(chan)
                  THEN SweptOnce(f, chan.sweep_shift, chan.sweep_by_adding)
                  ELSE f
            /\ chan'.volume_envelope.delay = chan.volume_envelope.delay
            /\ chan'.volume_envelope.volume = chan.volume_envelope.volume
            /\ ~SquareChannel_on(chan')
            /\ \A st \in StartSet :
                  LET c == SquareChannel_run(chan', st, st + SEQ_TICKS) IN
                  /\ c.last_amp = 0 /\ c.blip.level = 0
                  /\ chan.last_amp # 0 => c.blip.last_t = st
      ]_vars

\* C20 witness: a sounding channel right after a write of 0x46 to 0xFF14
\* under an active subtracting sweep: disabled, length enabled, the output
\* still up, frequency 1536 and sweep_frequency 1536 - 768.
C20_Witness ==
    /\ ~chan.enabled /\ chan.length_enabled /\ chan.delay = 0
    /\ chan.last_amp # 0 /\ chan.volume_envelope.volume = 15
    /\ SweepActive(chan) /\ ~chan.sweep_by_adding
    /\ chan.frequency = 1536 /\ chan.sweep_frequency = 768

----------------------------------------------------------------------------
(* The claim about the frame sequencer (SpecSeq) *)

\* how often the call c is in the sequence calls
CountIn(calls, c) == Cardinality({i \in 1 .. Len(calls) : calls[i] = c})

\* how often the call c is in the ticks of the log
CountLogged(c) ==
    Cardinality({p \in (1 .. 4) \X (1 .. 6) :
                    /\ p[1] <= Len(seq_log)
                    /\ p[2] <= Len(seq_log[p[1]])
                    /\ seq_log[p[1]][p[2]] = c})

\* C15: in each sequencer tick the calls of run on both channels come before
\* every modulation step, both length counters are stepped, both envelopes
\* are stepped iff time_divider is 0, the sweep of channel 1 iff time_divider
\* is 1 or 3, that of channel 2 never, and time_divider then advances by 1
\* mod 4; the state after the tick is the one these calls leave; and any four
\* ticks in a row step each envelope once, the sweep of channel 1 twice and
\* each length counter four times.
C15_Cadence ==
    /\ \A s \in run_states(sound) :
          LET calls == tick_calls(s)
              t == run_tick(s)
          IN  /\ \A i, j \in 1 .. Len(calls) :
                    (calls[i] \in {"run1", "run2"} /\ calls[j] \notin {"run1", "run2"})
                        => i < j
              /\ \A c \in {"run1", "run2", "length1", "length2"} : CountIn(calls, c) = 1
              /\ \A c \in {"envelope1", "envelope2"} :
                    CountIn(calls, c) = (IF s.time_divider = 0 THEN 1 ELSE 0)
              /\ CountIn(calls, "sweep1") = (IF s.time_divider \in {1, 3} THEN 1 ELSE 0)
              /\ CountIn(calls, "sweep2") = 0
              /\ t.time_divider = (s.time_divider + 1) % 4
              /\ t = [do_calls(s, calls) EXCEPT !.time_divider = (s.time_divider + 1) % 4,
                                                !.prev_time = s.next_time,
                                                !.next_time = s.next_time + SEQ_TICKS]
    /\ Len(seq_log) = 4 =>
          /\ CountLogged("envelope1") = 1 /\ CountLogged("envelope2") = 1
          /\ CountLogged("sweep1") = 2 /\ CountLogged("sweep2") = 0
          /\ CountLogged("length1") = 4 /\ CountLogged("length2") = 4
          /\ CountLogged("run1") = 4 /\ CountLogged("run2") = 4

\* C15 witness: five ticks have been processed; the last four began with a
\* sweep tick (time_divider 1) and ended with the envelope tick of the next
\* round, and both channels were triggered.
C15_Witness ==
    /\ Len(seq_log) = 4 /\ sound.time_divider = 1
    /\ seq_log[1][5] = "sweep1" /\ Len(seq_log[2]) = 4
    /\ seq_log[4][6] = "envelope2"
    /\ sound.channel1.enabled /\ sound.channel2.enabled

====
